---------------------------- MODULE Spec2Model ----------------------------
(***************************************************************************)
(* Proxy resolution of the extension host (setupProxyResolution and its    *)
(* helpers): the precedence chain of resolveProxy, the two-generation      *)
(* cache, the no-proxy matcher, the telemetry counters with their flush    *)
(* timer, and the outcome buckets filled by the requests' listeners.       *)
(*                                                                         *)
(* JavaScript strings that the code takes apart (no_proxy values, proxy    *)
(* URLs, proxy specs, hostnames, ports) are sequences of one-character     *)
(* strings, so that trim, toLowerCase, split, indexOf and endsWith are     *)
(* computed and not assumed.  Undefined stands for undefined/null.         *)
(***************************************************************************)
EXTENDS Integers, Sequences, FiniteSets, TLC

\* undefined/null: a value that is no string (no sequence of characters)
Undefined == <<"undefined">>
\* the handle setTimeout returns to resolveProxy call n
Timer(n) == <<"Timeout", n>>

(***************************************************************************)
(* Bounds of the model.                                                    *)
(***************************************************************************)
\* resolveProxy calls made in one behaviour of Spec
MaxCalls == 2
\* resolveProxy calls made in one behaviour of SpecPrec
MaxPrecCalls == 3
\* resolveProxy calls made in one behaviour of SpecNoProxy
MaxNoProxyCalls == 2
\* resolveProxy calls made in one behaviour of SpecCache
MaxCacheCalls == 4
\* resolveProxy calls made in one behaviour of SpecRace
MaxRaceCalls == 3
\* resolveProxy calls made in one behaviour of SpecThrows
MaxThrowCalls == 2
\* resolveProxy calls made in one behaviour of SpecConfig
MaxConfigCalls == 3
\* external lookups that wait at once in SpecCache
MaxInflight == 1
\* entries at which the current generation rolls over (maxCacheEntries, scaled)
MaxCache == 2
\* largest latency (Date.now() - start) of one external lookup
MaxElapsed == 1

(***************************************************************************)
(* String helpers (String.prototype.* of the JavaScript runtime).          *)
(***************************************************************************)
UpperChars == <<"A","B","C","D","E","F","G","H","I","J","K","L","M",
                "N","O","P","Q","R","S","T","U","V","W","X","Y","Z">>
LowerChars == <<"a","b","c","d","e","f","g","h","i","j","k","l","m",
                "n","o","p","q","r","s","t","u","v","w","x","y","z">>

ToLowerChar(c) ==
    IF \E i \in 1..26 : UpperChars[i] = c
    THEN LowerChars[CHOOSE i \in 1..26 : UpperChars[i] = c]
    ELSE c

ToLowerCase(s) == [i \in 1..Len(s) |-> ToLowerChar(s[i])]

IsSpace(c) == c \in {" ", "\t"}

RECURSIVE TrimLeft(_)
TrimLeft(s) == IF s # <<>> /\ IsSpace(Head(s)) THEN TrimLeft(Tail(s)) ELSE s

RECURSIVE TrimRight(_)
TrimRight(s) ==
    IF s # <<>> /\ IsSpace(s[Len(s)]) THEN TrimRight(SubSeq(s, 1, Len(s) - 1)) ELSE s

Trim(s) == TrimRight(TrimLeft(s))

\* s.indexOf(needle): the first 0-based position of needle in s, or -1
IndexOf(s, needle) ==
    LET hits == {i \in 1..(Len(s) - Len(needle) + 1) :
                    SubSeq(s, i, i + Len(needle) - 1) = needle}
    IN  IF hits = {} THEN -1 ELSE (CHOOSE i \in hits : \A j \in hits : i <= j) - 1

\* s.split(c) for a one-character separator c: "" gives [""]
RECURSIVE Split(_, _)
Split(s, c) ==
    LET i == IndexOf(s, <<c>>)
    IN  IF i = -1 THEN <<s>>
        ELSE <<SubSeq(s, 1, i)>> \o Split(SubSeq(s, i + 2, Len(s)), c)

\* s.split(c, limit): the first limit pieces of s.split(c)
SplitLimit(s, c, limit) ==
    LET all == Split(s, c)
    IN  SubSeq(all, 1, IF Len(all) < limit THEN Len(all) ELSE limit)

\* s.split(/\s+/, 1)[0]: the text before the first run of white space
RECURSIVE FirstToken(_)
FirstToken(s) ==
    IF s = <<>> \/ IsSpace(Head(s)) THEN <<>> ELSE <<Head(s)>> \o FirstToken(Tail(s))

\* endsWith of vs/base/common/strings
EndsWith(haystack, needle) ==
    LET diff == Len(haystack) - Len(needle)
    IN  IF diff > 0 THEN SubSeq(haystack, diff + 1, Len(haystack)) = needle
        ELSE IF diff = 0 THEN haystack = needle
        ELSE FALSE

\* truthiness of a string | undefined
Truthy(v) == v # Undefined /\ v # <<>>

(***************************************************************************)
(* proxyFromConfigURL                                                      *)
(***************************************************************************)
proxyFromConfigURL(configURL) ==
    LET url    == Trim(IF Truthy(configURL) THEN configURL ELSE <<>>)
        i      == IndexOf(url, <<":", "/", "/">>)
        scheme == ToLowerCase(SubSeq(url, 1, i))
        proxy  == SubSeq(url, i + 4, Len(url))
    IN  IF i = -1 THEN Undefined
        ELSE IF scheme = <<"h","t","t","p">> THEN <<"P","R","O","X","Y"," ">> \o proxy
        ELSE IF scheme = <<"h","t","t","p","s">> THEN <<"H","T","T","P","S"," ">> \o proxy
        ELSE IF scheme = <<"s","o","c","k","s">> THEN <<"S","O","C","K","S"," ">> \o proxy
        ELSE Undefined

(***************************************************************************)
(* noProxyFromEnv: the closure it returns is the record of what it closes  *)
(* over; envNoProxyApply is the call of that closure.                      *)
(***************************************************************************)
\* .map(s => s.trim().split(':', 2)).map(([name, port]) => ({ name, port }))
noProxyEntry(s) ==
    LET parts == SplitLimit(Trim(s), ":", 2)
    IN  [name |-> parts[1], port |-> IF Len(parts) >= 2 THEN parts[2] ELSE Undefined]

\* .map(({ name, port }) => ({ domain: name[0] === '.' ? name : `.${name}`, port }))
noProxyFilter(e) ==
    [domain |-> IF e.name[1] = "." THEN e.name ELSE <<".">> \o e.name, port |-> e.port]

noProxyFromEnv(envValue) ==
    LET value   == ToLowerCase(Trim(IF Truthy(envValue) THEN envValue ELSE <<>>))
        pieces  == Split(value, ",")
        entries == [i \in 1..Len(pieces) |-> noProxyEntry(pieces[i])]
        kept    == SelectSeq(entries, LAMBDA e : e.name # <<>>)
        filters == [i \in 1..Len(kept) |-> noProxyFilter(kept[i])]
    IN  IF value = <<"*">> THEN [kind |-> "always", filters |-> <<>>]
        ELSE IF Len(filters) = 0 THEN [kind |-> "never", filters |-> <<>>]
        ELSE [kind |-> "some", filters |-> filters]

\* filterMatches without the port test
filterMatches_AnyPort(f, hostname, port) ==
    EndsWith(<<".">> \o ToLowerCase(hostname), f.domain)

\* endsWith(`.${hostname.toLowerCase()}`, domain) && (!filterPort || port === filterPort)
filterMatches(f, hostname, port) ==
    /\ EndsWith(<<".">> \o ToLowerCase(hostname), f.domain)
    /\ (~Truthy(f.port) \/ port = f.port)

envNoProxyApply(np, hostname, port) ==
    CASE np.kind = "always" -> TRUE
      [] np.kind = "never"  -> FALSE
      [] OTHER -> \E i \in 1..Len(np.filters) : filterMatches(np.filters[i], hostname, port)

(***************************************************************************)
(* Values of the environment.                                              *)
(***************************************************************************)
sDIRECT     == <<"D","I","R","E","C","T">>
sEMPTY      == <<"E","M","P","T","Y">>
sLocalhost  == <<"l","o","c","a","l","h","o","s","t">>
sLoopback4  == <<"1","2","7",".","0",".","0",".","1">>
sLoopback6  == <<":",":","1">>
sLoopback46 == <<":",":","f","f","f","f",":","1","2","7",".","0",".","0",".","1">>
sProxyAB    == <<"P","R","O","X","Y"," ","a",":","b">>
sPort80     == <<"8","0">>
sPort443    == <<"4","4","3">>
sPort8080   == <<"8","0","8","0">>
\* "http://p:1", " HTTPS://q:2 ", "ftp://x"
cfgHttp     == <<"h","t","t","p",":","/","/","p",":","1">>
cfgHttps    == <<" ","H","T","T","P","S",":","/","/","q",":","2"," ">>
cfgFtp      == <<"f","t","p",":","/","/","x">>
\* ".foo.com,bar.com:8080"
npList      == <<".","f","o","o",".","c","o","m",",","b","a","r",".","c","o","m",
                 ":","8","0","8","0">>
hXFoo       == <<"x",".","f","o","o",".","c","o","m">>
hBar        == <<"b","a","r",".","c","o","m">>
hA          == <<"a">>
hB          == <<"b">>

\* what nodeurl.parse(url) gives resolveProxy: the fields the code reads
Url(protocol, auth, hostname, port, path) ==
    [protocol |-> protocol, auth |-> auth, hostname |-> hostname, port |-> port,
     path |-> path]

\* process.env: the variables setupProxyResolution reads
Env(httpsProxy, httpProxy, noProxy) ==
    [https_proxy |-> httpsProxy, HTTPS_PROXY |-> Undefined, http_proxy |-> Undefined,
     HTTP_PROXY |-> httpProxy, no_proxy |-> Undefined, NO_PROXY |-> noProxy]

\* a || b || ... on string | undefined operands
RECURSIVE FirstTruthy(_)
FirstTruthy(vs) ==
    IF Len(vs) = 1 \/ Truthy(Head(vs)) THEN Head(vs) ELSE FirstTruthy(Tail(vs))

(***************************************************************************)
(* Map<string, string>                                                     *)
(***************************************************************************)
EmptyMap == [k \in {} |-> Undefined]
MapGet(m, k) == IF k \in DOMAIN m THEN m[k] ELSE Undefined
MapSet(m, k, v) == [j \in DOMAIN m \cup {k} |-> IF j = k THEN v ELSE m[j]]
MapDelete(m, k) == [j \in DOMAIN m \ {k} |-> m[j]]
MapSize(m) == Cardinality(DOMAIN m)

(***************************************************************************)
(* The state of setupProxyResolution's closure, and of its environment.    *)
(***************************************************************************)
VARIABLES
    env,            \* process.env, read once at construction
    config,         \* the host's http.proxy setting
    settingsProxy, envProxy, envNoProxy,
    cacheRolls, oldCache, cache,
    timeout,        \* the handle of the pending flush timer, or Undefined
    timers,         \* logEvent callbacks scheduled with setTimeout and not yet run
    count, duration, errorCount, cacheCount, envCount, settingsCount,
    localhostCount, envNoProxyCount,
    results,        \* the array `results` refers to: its identity, a key of arrays
    arrays,         \* the ConnectionResult[] arrays still referenced, by identity
    ncalls,         \* resolveProxy calls made so far
    pending,        \* external lookups in flight: [n, url] of the call that waits
    hooked,         \* requests whose listeners wait: collectResult's closures
    out,            \* what the last call, settled lookup or flush did to its environment
    ended,          \* array -> the bag of <<spec, connection, code>> its listeners were told
    proxySupport,   \* the host's http.proxySupport setting ("" when unset)
    setting,        \* setting.config of createPatchedModules
    dispatched      \* what the last call of a patched get/request gave the original

counters == <<count, duration, errorCount, cacheCount, envCount, settingsCount,
              localhostCount, envNoProxyCount>>
cacheVars == <<cacheRolls, oldCache, cache>>
confVars == <<env, config, settingsProxy, envProxy, envNoProxy>>
timerVars == <<timeout, timers>>
patchVars == <<proxySupport, setting, dispatched>>
vars == <<confVars, cacheVars, timerVars, counters, results, arrays, ncalls, pending,
          hooked, out, ended, patchVars>>

maxCacheEntries == MaxCache

(***************************************************************************)
(* getCacheKey, getCachedProxy, cacheProxy.  A cache state is the record   *)
(* [cache, oldCache, cacheRolls] of the three variables the functions      *)
(* share.                                                                  *)
(***************************************************************************)
\* nodeurl.format of the URL without pathname, search and hash
\* getCacheKey that drops the credentials as well
getCacheKey_NoAuth(url) ==
    [protocol |-> url.protocol, auth |-> Undefined, hostname |-> url.hostname,
     port |-> url.port]

getCacheKey(url) ==
    [protocol |-> url.protocol, auth |-> url.auth, hostname |-> url.hostname,
     port |-> url.port]

\* cacheProxy that keeps the spec a key already has (first writer wins)
cacheProxy_KeepFirst(c, key, proxy) ==
    LET set == IF key \in DOMAIN c.cache THEN c.cache ELSE MapSet(c.cache, key, proxy)
    IN  IF MapSize(set) >= maxCacheEntries
        THEN [cache |-> EmptyMap, oldCache |-> set, cacheRolls |-> c.cacheRolls + 1]
        ELSE [cache |-> set, oldCache |-> c.oldCache, cacheRolls |-> c.cacheRolls]

\* cacheProxy that rolls over one entry late (> for >=)
cacheProxy_Late(c, key, proxy) ==
    LET set == MapSet(c.cache, key, proxy)
    IN  IF MapSize(set) > maxCacheEntries
        THEN [cache |-> EmptyMap, oldCache |-> set, cacheRolls |-> c.cacheRolls + 1]
        ELSE [cache |-> set, oldCache |-> c.oldCache, cacheRolls |-> c.cacheRolls]

cacheProxy(c, key, proxy) ==
    LET set == MapSet(c.cache, key, proxy)
    IN  IF MapSize(set) >= maxCacheEntries
        THEN [cache |-> EmptyMap, oldCache |-> set, cacheRolls |-> c.cacheRolls + 1]
        ELSE [cache |-> set, oldCache |-> c.oldCache, cacheRolls |-> c.cacheRolls]

\* getCachedProxy that promotes a hit of the previous generation without deleting it there
getCachedProxy_NoDelete(c, key) ==
    LET proxy == MapGet(c.cache, key)
        old   == MapGet(c.oldCache, key)
    IN  IF Truthy(proxy) THEN [proxy |-> proxy, c |-> c]
        ELSE IF Truthy(old) THEN [proxy |-> old, c |-> cacheProxy(c, key, old)]
        ELSE [proxy |-> old, c |-> c]

\* getCachedProxy that returns a hit of the previous generation without promoting it
getCachedProxy_NoPromote(c, key) ==
    LET proxy == MapGet(c.cache, key)
    IN  [proxy |-> IF Truthy(proxy) THEN proxy ELSE MapGet(c.oldCache, key), c |-> c]

\* the value returned and the cache state left behind
getCachedProxy(c, key) ==
    LET proxy == MapGet(c.cache, key)
        old   == MapGet(c.oldCache, key)
    IN  IF Truthy(proxy) THEN [proxy |-> proxy, c |-> c]
        ELSE IF Truthy(old)
        THEN [proxy |-> old,
              c |-> cacheProxy([c EXCEPT !.oldCache = MapDelete(c.oldCache, key)], key, old)]
        ELSE [proxy |-> old, c |-> c]

cacheState == [cache |-> cache, oldCache |-> oldCache, cacheRolls |-> cacheRolls]

SetCache(c) ==
    /\ cache' = c.cache
    /\ oldCache' = c.oldCache
    /\ cacheRolls' = c.cacheRolls

(***************************************************************************)
(* collectResult and findOrCreateResult                                    *)
(***************************************************************************)
\* resolveProxy ? String(resolveProxy).trim().split(/\s+/, 1)[0] : 'EMPTY'
resultProxy(resolved) ==
    IF Truthy(resolved) THEN FirstToken(Trim(resolved)) ELSE sEMPTY

\* parsedUrl.protocol === 'https:' ? 'HTTPS' : 'HTTP'
connectionOf(url) == IF url.protocol = "https:" THEN "HTTPS" ELSE "HTTP"

\* collectResult(results, proxy, connection, req): what the listeners it attaches
\* close over (arr: the identity of the array passed), for the request of call n
\* that was resolved to spec
collectResult(n, url, resolved) ==
    [n |-> n, arr |-> results, proxy |-> resultProxy(resolved),
     connection |-> connectionOf(url), spec |-> resolved]

\* `HTTP_${res.statusCode}`
responseCode(statusCode) == "HTTP_" \o ToString(statusCode)

\* err && typeof err.code === 'string' && err.code || 'UNKNOWN_ERROR'
\* (an err whose code is no string has code "" here)
errorCode(err) == IF err.code # "" THEN err.code ELSE "UNKNOWN_ERROR"

\* findOrCreateResult that never finds
findOrCreateResult_AlwaysCreates(list, proxy, connection, code) ==
    [list |-> Append(list, [proxy |-> proxy, connection |-> connection, code |-> code,
                            count |-> 0]),
     at |-> Len(list) + 1]

\* the index findOrCreateResult returns, in the list it leaves
findOrCreateResult(list, proxy, connection, code) ==
    LET hits == {i \in 1..Len(list) : /\ list[i].proxy = proxy
                                      /\ list[i].connection = connection
                                      /\ list[i].code = code}
    IN  IF hits # {}
        THEN [list |-> list, at |-> CHOOSE h \in hits : \A j \in hits : h <= j]
        ELSE [list |-> Append(list, [proxy |-> proxy, connection |-> connection,
                                     code |-> code, count |-> 0]),
              at |-> Len(list) + 1]

\* const result = findOrCreateResult(...); result.count++;
recordResult(list, proxy, connection, code) ==
    LET found == findOrCreateResult(list, proxy, connection, code)
    IN  [found.list EXCEPT ![found.at].count = @ + 1]

(***************************************************************************)
(* What a step did to its environment.                                     *)
(***************************************************************************)
NoUrl == [protocol |-> "", auth |-> Undefined, hostname |-> <<>>, port |-> Undefined,
          path |-> ""]

\* op: the operation; n: the resolveProxy call it belongs to; cbs: the arguments of
\* the callback invocations it made, in order; ext: its calls of
\* extHostWorkspace.resolveProxy; gets: its calls of getCachedProxy; hook: whether it
\* called collectResult; events: what it gave to mainThreadTelemetry.$publicLog
Out(op, n, url, path, cbs, ext, gets, hook) ==
    [op |-> op, n |-> n, url |-> url, path |-> path, cbs |-> cbs, ext |-> ext,
     gets |-> gets, hook |-> hook, events |-> <<>>]

\* the arrays something still refers to: `results` and the listeners' closures
Live(arrs, current, listeners) ==
    [a \in {current} \cup {h.arr : h \in listeners} |-> arrs[a]]

BagAdd(b, e) == [j \in DOMAIN b \cup {e} |-> IF j \in DOMAIN b THEN b[j] + (IF j = e THEN 1 ELSE 0) ELSE 1]

(***************************************************************************)
(* createPatchedModules and patches: the patched get/request.  Mode        *)
(* strings are compared as they are; "" stands for an unset (falsy) one.   *)
(* An agent is "none" (no agent given), "Agent" (an agent of the caller)   *)
(* or "ProxyAgent" (an instance of ProxyAgent).                            *)
(***************************************************************************)
\* a || b on mode strings
ModeOr(a, b) == IF a # "" THEN a ELSE b

\* the fields of the options argument that patched reads
Options(support, system, path, given) ==
    [_vscodeProxySupport |-> support, _vscodeSystemProxy |-> system,
     socketPath |-> path, agent |-> given]

NoOptions == Options("", "", "", "none")

\* the five variants of a module: the config of the setting object given to patches
variantConfig(variant) ==
    CASE variant = "off" -> "off"
      [] variant = "on" -> "on"
      [] variant = "override" -> "override"
      [] OTHER -> setting

\* the onRequest argument given to patches: false for the default variant only
variantOnRequest(variant) == variant # "default"

\* the global mode read before the per-call fields
patchedConfig_GlobalFirst(variant, options) ==
    ModeOr(variantConfig(variant),
           ModeOr(options._vscodeProxySupport, options._vscodeSystemProxy))

\* onRequest && (options._vscodeProxySupport || options._vscodeSystemProxy) || setting.config
patchedConfig(variant, options) ==
    IF variantOnRequest(variant)
    THEN ModeOr(ModeOr(options._vscodeProxySupport, options._vscodeSystemProxy),
                variantConfig(variant))
    ELSE variantConfig(variant)

\* the test without !options.socketPath
substitutes_AnySocketPath(mode, options) ==
    /\ mode # "off"
    /\ mode = "override" \/ (mode = "on" /\ options.agent = "none")
    /\ options.agent # "ProxyAgent"

\* config !== 'off' && !options.socketPath && (config === 'override' || config === 'on'
\* && !options.agent) && !(options.agent instanceof ProxyAgent)
substitutes(mode, options) ==
    /\ mode # "off"
    /\ options.socketPath = ""
    /\ mode = "override" \/ (mode = "on" /\ options.agent = "none")
    /\ options.agent # "ProxyAgent"

\* what the original get/request is called with
Dispatch(variant, options, mode, substituted) ==
    [config |-> mode,
     agent |-> IF substituted THEN "ProxyAgent" ELSE options.agent,
     variant |-> variant, options |-> options, substituted |-> substituted,
     originalAgent |-> IF substituted THEN options.agent ELSE "none"]

\* a call of the patched get/request of a variant
patched(variant, options) ==
    /\ dispatched' = Dispatch(variant, options, patchedConfig(variant, options),
                              substitutes(patchedConfig(variant, options), options))
    /\ UNCHANGED <<confVars, proxySupport, setting, cacheVars, timerVars, counters, results,
                   arrays, ncalls, pending, hooked, out, ended>>

\* the listener of createPatchedModules (and that of setupProxyResolution, which
\* reads the unchanged http.proxy again): http.proxySupport is now value
OnDidChangeProxySupport(value) ==
    /\ proxySupport' = value
    /\ setting' = ModeOr(value, "off")
    /\ settingsProxy' = proxyFromConfigURL(config)
    /\ UNCHANGED <<env, config, envProxy, envNoProxy, dispatched, cacheVars, timerVars,
                   counters, results, arrays, ncalls, pending, hooked, out, ended>>

(***************************************************************************)
(* Construction                                                            *)
(***************************************************************************)
InitSupport(envs, configs, supports) ==
    /\ proxySupport \in supports
    /\ setting = ModeOr(proxySupport, "off")
    /\ dispatched = Dispatch("", NoOptions, "", FALSE)
    /\ env \in envs
    /\ config \in configs
    /\ settingsProxy = proxyFromConfigURL(config)
    /\ envProxy = proxyFromConfigURL(
           FirstTruthy(<<env.https_proxy, env.HTTPS_PROXY, env.http_proxy, env.HTTP_PROXY>>))
    /\ envNoProxy = noProxyFromEnv(FirstTruthy(<<env.no_proxy, env.NO_PROXY>>))
    /\ cacheRolls = 0
    /\ oldCache = EmptyMap
    /\ cache = EmptyMap
    /\ timeout = Undefined
    /\ timers = 0
    /\ count = 0
    /\ duration = 0
    /\ errorCount = 0
    /\ cacheCount = 0
    /\ envCount = 0
    /\ settingsCount = 0
    /\ localhostCount = 0
    /\ envNoProxyCount = 0
    /\ results = 1
    /\ arrays = [a \in {1} |-> <<>>]
    /\ ncalls = 0
    /\ pending = {}
    /\ hooked = {}
    /\ out = Out("init", 0, NoUrl, "", <<>>, 0, 0, FALSE)
    /\ ended = [a \in {1} |-> EmptyMap]

\* construction with http.proxySupport unset
InitWith(envs, configs) == InitSupport(envs, configs, {""})

\* a listener that also rebuilds the no-proxy predicate from the environment
OnDidChangeConfiguration_RebuildsNoProxy(value) ==
    /\ config' = value
    /\ settingsProxy' = proxyFromConfigURL(value)
    /\ envNoProxy' = noProxyFromEnv(FirstTruthy(<<env.no_proxy, env.NO_PROXY>>))
    /\ UNCHANGED <<env, envProxy, patchVars, cacheVars, timerVars, counters, results,
                   arrays, ncalls, pending, hooked, out, ended>>

\* configProvider.onDidChangeConfiguration: the host's setting is now value
OnDidChangeConfiguration(value) ==
    /\ config' = value
    /\ settingsProxy' = proxyFromConfigURL(value)
    /\ UNCHANGED <<env, envProxy, envNoProxy, patchVars, cacheVars, timerVars, counters, results,
                   arrays, ncalls, pending, hooked, out, ended>>

\* code of the process assigns to process.env, the object `env` refers to; nothing
\* built from it at construction is rebuilt
OnEnvironmentAssigned(value) ==
    /\ env' = value
    /\ UNCHANGED <<config, settingsProxy, envProxy, envNoProxy, patchVars, cacheVars,
                   timerVars, counters, results, arrays, ncalls, pending, hooked, out, ended>>

(***************************************************************************)
(* logEvent, run by the timer that resolveProxy arms                       *)
(***************************************************************************)
\* the reset with localhostCount left out of the chain of assignments
resetCounters_KeepsLocalhost ==
    /\ count' = 0
    /\ duration' = 0
    /\ errorCount' = 0
    /\ cacheCount' = 0
    /\ envCount' = 0
    /\ settingsCount' = 0
    /\ localhostCount' = localhostCount
    /\ envNoProxyCount' = 0

\* count = duration = errorCount = ... = envNoProxyCount = 0;
resetCounters ==
    /\ count' = 0
    /\ duration' = 0
    /\ errorCount' = 0
    /\ cacheCount' = 0
    /\ envCount' = 0
    /\ settingsCount' = 0
    /\ localhostCount' = 0
    /\ envNoProxyCount' = 0

\* the event without the bucket list
telemetryEvent_NoResults(buckets) ==
    [count |-> count, duration |-> duration, errorCount |-> errorCount,
     cacheCount |-> cacheCount, cacheSize |-> MapSize(cache),
     cacheRolls |-> cacheRolls, envCount |-> envCount,
     settingsCount |-> settingsCount, localhostCount |-> localhostCount,
     envNoProxyCount |-> envNoProxyCount, results |-> <<>>]

\* the object given to mainThreadTelemetry.$publicLog; buckets is what `results` holds
telemetryEvent(buckets) ==
    [count |-> count, duration |-> duration, errorCount |-> errorCount,
     cacheCount |-> cacheCount, cacheSize |-> MapSize(cache),
     cacheRolls |-> cacheRolls, envCount |-> envCount,
     settingsCount |-> settingsCount, localhostCount |-> localhostCount,
     envNoProxyCount |-> envNoProxyCount, results |-> buckets]

logEvent ==
    /\ timers > 0
    /\ timers' = timers - 1
    /\ timeout' = Undefined
    /\ out' = [Out("logEvent", 0, NoUrl, "", <<>>, 0, 0, FALSE)
                  EXCEPT !.events = <<telemetryEvent(arrays[results])>>]
    /\ resetCounters
    /\ results' = results + 1
    /\ arrays' = Live([a \in DOMAIN arrays \cup {results + 1} |->
                          IF a = results + 1 THEN <<>> ELSE arrays[a]],
                      results + 1, hooked)
    /\ ended' = [a \in DOMAIN arrays' |-> IF a \in DOMAIN ended THEN ended[a] ELSE EmptyMap]
    /\ UNCHANGED <<confVars, patchVars, cacheVars, ncalls, pending, hooked>>

(***************************************************************************)
(* resolveProxy(req, opts, url, callback): the synchronous part            *)
(***************************************************************************)
\* the loopback test without the IPv4-mapped IPv6 literal
isLoopback_NoMapped(hostname) ==
    \/ hostname = sLocalhost
    \/ hostname = sLoopback4
    \/ hostname = sLoopback6

isLoopback(hostname) ==
    \/ hostname = sLocalhost
    \/ hostname = sLoopback4
    \/ hostname = sLoopback6
    \/ hostname = sLoopback46

\* no setTimeout at all
armTimeout_Never == UNCHANGED timerVars

\* setTimeout on every call, whether or not a timer is pending
armTimeout_Always ==
    timeout' = Timer(ncalls + 1) /\ timers' = timers + 1

\* if (!timeout) { timeout = setTimeout(logEvent, 10 * 60 * 1000); }
armTimeout ==
    IF timeout = Undefined
    THEN timeout' = Timer(ncalls + 1) /\ timers' = timers + 1
    ELSE UNCHANGED timerVars

\* (<any>opts.agent).defaultPort: 443 for the https module's agent, else 80
defaultPort(url) == IF url.protocol = "https:" THEN sPort443 ELSE sPort80

\* String(parsedUrl.port || (<any>opts.agent).defaultPort)
effectivePort(url) == IF Truthy(url.port) THEN url.port ELSE defaultPort(url)

\* the chain with the environment proxy tested before the settings proxy
pathOf_EnvFirst(url) ==
    IF isLoopback(url.hostname) THEN "localhost"
    ELSE IF envNoProxyApply(envNoProxy, url.hostname, effectivePort(url)) THEN "envNoProxy"
    ELSE IF Truthy(envProxy) THEN "env"
    ELSE IF Truthy(settingsProxy) THEN "settings"
    ELSE IF Truthy(getCachedProxy(cacheState, getCacheKey(url)).proxy) THEN "cached"
    ELSE "lookup"

\* the branch of resolveProxy that a call for url takes in the current state
pathOf(url) ==
    IF isLoopback(url.hostname) THEN "localhost"
    ELSE IF envNoProxyApply(envNoProxy, url.hostname, effectivePort(url)) THEN "envNoProxy"
    ELSE IF Truthy(settingsProxy) THEN "settings"
    ELSE IF Truthy(envProxy) THEN "env"
    ELSE IF Truthy(getCachedProxy(cacheState, getCacheKey(url)).proxy) THEN "cached"
    ELSE "lookup"

resolveProxy(url) ==
    LET path == pathOf(url)
        n    == ncalls + 1
        got  == getCachedProxy(cacheState, getCacheKey(url))
    IN  /\ ncalls' = n
        /\ armTimeout
        /\ localhostCount' = IF path = "localhost" THEN localhostCount + 1 ELSE localhostCount
        /\ envNoProxyCount' = IF path = "envNoProxy" THEN envNoProxyCount + 1
                              ELSE envNoProxyCount
        /\ settingsCount' = IF path = "settings" THEN settingsCount + 1 ELSE settingsCount
        /\ envCount' = IF path = "env" THEN envCount + 1 ELSE envCount
        /\ cacheCount' = IF path = "cached" THEN cacheCount + 1 ELSE cacheCount
        /\ IF path \in {"cached", "lookup"} THEN SetCache(got.c) ELSE UNCHANGED cacheVars
        /\ hooked' = IF path = "cached" THEN hooked \cup {collectResult(n, url, got.proxy)}
                     ELSE hooked
        /\ pending' = IF path = "lookup" THEN pending \cup {[n |-> n, url |-> url]}
                      ELSE pending
        /\ out' = CASE path \in {"localhost", "envNoProxy"} ->
                           Out("resolveProxy", n, url, path, <<sDIRECT>>, 0, 0, FALSE)
                    [] path = "settings" ->
                           Out("resolveProxy", n, url, path, <<settingsProxy>>, 0, 0, FALSE)
                    [] path = "env" ->
                           Out("resolveProxy", n, url, path, <<envProxy>>, 0, 0, FALSE)
                    [] path = "cached" ->
                           Out("resolveProxy", n, url, path, <<got.proxy>>, 0, 1, TRUE)
                    [] OTHER -> Out("resolveProxy", n, url, path, <<>>, 1, 1, FALSE)
        /\ UNCHANGED <<confVars, patchVars, count, duration, errorCount, results, arrays,
                       ended>>

(***************************************************************************)
(* The promise of extHostWorkspace.resolveProxy(url) settles               *)
(***************************************************************************)
\* a chain without the rejection handler: a success branch that throws counts nothing
resolverFulfilled_ThrowUncounted(p, proxy, elapsed, callbackThrows) ==
    /\ p \in pending
    /\ pending' = pending \ {p}
    /\ SetCache(cacheProxy(cacheState, getCacheKey(p.url), proxy))
    /\ hooked' = hooked \cup {collectResult(p.n, p.url, proxy)}
    /\ out' = Out("fulfilled", p.n, p.url, "lookup", <<proxy>>, 0, 0, TRUE)
    /\ count' = IF callbackThrows THEN count ELSE count + 1
    /\ duration' = IF callbackThrows THEN duration ELSE elapsed + duration
    /\ UNCHANGED <<confVars, patchVars, timerVars, errorCount, cacheCount, envCount,
                   settingsCount, localhostCount, envNoProxyCount, results, arrays, ncalls,
                   ended>>

\* fulfilled with proxy; elapsed is Date.now() - start; callbackThrows: the
\* caller's callback raises, which rejects the first then's promise
resolverFulfilled(p, proxy, elapsed, callbackThrows) ==
    /\ p \in pending
    /\ pending' = pending \ {p}
    /\ SetCache(cacheProxy(cacheState, getCacheKey(p.url), proxy))
    /\ hooked' = hooked \cup {collectResult(p.n, p.url, proxy)}
    /\ out' = Out("fulfilled", p.n, p.url, "lookup",
                  IF callbackThrows THEN <<proxy, Undefined>> ELSE <<proxy>>, 0, 0, TRUE)
    /\ count' = IF callbackThrows THEN count ELSE count + 1
    /\ duration' = IF callbackThrows THEN duration ELSE elapsed + duration
    /\ errorCount' = IF callbackThrows THEN errorCount + 1 ELSE errorCount
    /\ UNCHANGED <<confVars, patchVars, timerVars, cacheCount, envCount, settingsCount,
                   localhostCount, envNoProxyCount, results, arrays, ncalls, ended>>

\* a rejection that is also counted as a success (count++ in a finally)
resolverRejected_Counted(p) ==
    /\ p \in pending
    /\ pending' = pending \ {p}
    /\ out' = Out("rejected", p.n, p.url, "lookup", <<Undefined>>, 0, 0, FALSE)
    /\ errorCount' = errorCount + 1
    /\ count' = count + 1
    /\ UNCHANGED <<confVars, patchVars, cacheVars, timerVars, duration, cacheCount,
                   envCount, settingsCount, localhostCount, envNoProxyCount, results,
                   arrays, ncalls, hooked, ended>>

resolverRejected(p) ==
    /\ p \in pending
    /\ pending' = pending \ {p}
    /\ out' = Out("rejected", p.n, p.url, "lookup", <<Undefined>>, 0, 0, FALSE)
    /\ errorCount' = errorCount + 1
    /\ UNCHANGED <<confVars, patchVars, cacheVars, timerVars, count, duration, cacheCount,
                   envCount, settingsCount, localhostCount, envNoProxyCount, results,
                   arrays, ncalls, hooked, ended>>

(***************************************************************************)
(* The request's terminal events reach the listeners of collectResult      *)
(***************************************************************************)
requestEnds(h, code) ==
    /\ h \in hooked
    /\ hooked' = hooked \ {h}
    /\ arrays' = Live([arrays EXCEPT ![h.arr] = recordResult(@, h.proxy, h.connection, code)],
                      results, hooked')
    /\ ended' = [a \in DOMAIN arrays' |->
                    IF a = h.arr THEN BagAdd(ended[a], <<h.spec, h.connection, code>>)
                    ELSE ended[a]]
    /\ UNCHANGED <<confVars, patchVars, cacheVars, timerVars, counters, results, ncalls, pending,
                   out>>

\* req.on('response', res => ...)
onResponse(h, statusCode) == requestEnds(h, responseCode(statusCode))

\* req.on('error', err => ...)
onError(h, err) == requestEnds(h, errorCode(err))

(***************************************************************************)
(* The environment's inputs, and the next-state relation over them.        *)
(***************************************************************************)
uLocalhost  == Url("http:", Undefined, sLocalhost, Undefined, "/")
uLoopback4  == Url("http:", Undefined, sLoopback4, sPort8080, "/")
uLoopback6  == Url("https:", Undefined, sLoopback6, Undefined, "/")
uLoopback46 == Url("http:", Undefined, sLoopback46, Undefined, "/")
uXFoo       == Url("https:", Undefined, hXFoo, Undefined, "/")
uA          == Url("http:", Undefined, hA, Undefined, "/")
uAPath      == Url("http:", Undefined, hA, Undefined, "/p?q#h")
uB          == Url("http:", Undefined, hB, Undefined, "/")

noEnv == Env(Undefined, Undefined, Undefined)

\* a caller makes one of maxCalls calls; at most maxInflight lookups wait at once
ResolveProxy(urls, maxCalls, maxInflight) ==
    \E url \in urls :
        /\ ncalls < maxCalls
        /\ pathOf(url) = "lookup" => Cardinality(pending) < maxInflight
        /\ resolveProxy(url)

ResolverFulfilled(resolved, latencies, throws) ==
    \E p \in pending, proxy \in resolved, elapsed \in latencies, callbackThrows \in throws :
        resolverFulfilled(p, proxy, elapsed, callbackThrows)

ResolverRejected == \E p \in pending : resolverRejected(p)

TimerFires == logEvent

Response(statusCodes) ==
    \E h \in hooked, statusCode \in statusCodes : onResponse(h, statusCode)

Error(errors) == \E h \in hooked, err \in errors : onError(h, err)

ConfigurationChanged(configs) ==
    \E value \in configs : OnDidChangeConfiguration(value)

(***************************************************************************)
(* Spec: the engine with its telemetry.  One cacheable origin, one         *)
(* loopback URL, a settings proxy that comes and goes, requests that end   *)
(* with a response or an error, the flush timer.                           *)
(***************************************************************************)
Init == InitWith({noEnv}, {Undefined})

Next ==
    \/ ResolveProxy({uA, uLocalhost}, MaxCalls, MaxCalls)
    \/ ResolverFulfilled({sProxyAB, Undefined}, 1..MaxElapsed, {FALSE})
    \/ ResolverRejected
    \/ TimerFires
    \/ Response({200, 404})
    \/ Error({[code |-> ""]})
    \/ ConfigurationChanged({Undefined, cfgHttp})

Spec == Init /\ [][Next]_vars

(***************************************************************************)
(* SpecPrec: the precedence chain.  Every combination of environment and   *)
(* setting at construction, the four loopback literals, a host the         *)
(* no-proxy list matches and one it does not.                              *)
(***************************************************************************)
EnvsPrec == {noEnv, Env(cfgHttps, Undefined, Undefined), Env(Undefined, cfgHttp, npList),
             Env(Undefined, Undefined, npList)}

UrlsPrec == {uLocalhost, uLoopback4, uLoopback6, uLoopback46, uXFoo, uA}

InitPrec == InitWith(EnvsPrec, {Undefined, cfgHttp})

NextPrec ==
    \/ ResolveProxy(UrlsPrec, MaxPrecCalls, MaxPrecCalls)
    \/ ResolverFulfilled({sProxyAB}, {0}, {FALSE})
    \/ ResolverRejected
    \/ ConfigurationChanged({Undefined, cfgHttp, cfgFtp})

SpecPrec == InitPrec /\ [][NextPrec]_vars

(***************************************************************************)
(* SpecNoProxy: the no-proxy matcher.  The NO_PROXY values of              *)
(* NoProxyValues, requests to hosts and ports that the entries match, miss *)
(* by the port, or miss by the name.                                       *)
(***************************************************************************)
\* "*", " * ", "", " Bar.COM : 8080 ,, :9 ,foo.com:", "bar.com:8080:1"
npStar      == <<"*">>
npStarSp    == <<" ","*"," ">>
npNone      == <<>>
npMessy     == <<" ","B","a","r",".","C","O","M"," ",":","8","0","8","0"," ",",",",",
                 " ",":","9"," ",",","f","o","o",".","c","o","m",":">>
npTwoColons == <<"b","a","r",".","c","o","m",":","8","0","8","0",":","1">>
hFooEvil    == <<"f","o","o",".","c","o","m",".","e","v","i","l",".","c","o","m">>
hFoo        == <<"f","o","o",".","c","o","m">>
hXBar       == <<"x","b","a","r",".","c","o","m">>

NoProxyValues == {Undefined, npList, npStar, npStarSp, npNone, npMessy, npTwoColons}

uXFoo80  == Url("http:", Undefined, hXFoo, sPort80, "/")
uFoo     == Url("http:", Undefined, hFoo, Undefined, "/")
uBar     == Url("http:", Undefined, hBar, Undefined, "/")
uBar8080 == Url("http:", Undefined, hBar, sPort8080, "/")
uXBar8080 == Url("http:", Undefined, hXBar, sPort8080, "/")
uFooEvil == Url("https:", Undefined, hFooEvil, Undefined, "/")

UrlsNoProxy == {uXFoo, uXFoo80, uFoo, uBar, uBar8080, uXBar8080, uFooEvil}

InitNoProxy == InitWith({Env(Undefined, Undefined, np) : np \in NoProxyValues}, {Undefined})

NextNoProxy ==
    \/ ResolveProxy(UrlsNoProxy, MaxNoProxyCalls, MaxNoProxyCalls)
    \/ ResolverFulfilled({sProxyAB}, {0}, {FALSE})
    \/ ResolverRejected

SpecNoProxy == InitNoProxy /\ [][NextNoProxy]_vars

(***************************************************************************)
(* SpecCache: the two-generation cache.  Three cache keys (one origin with *)
(* and without credentials and under two paths, a second origin), lookups  *)
(* that give a spec or none, a settings proxy that comes and goes.         *)
(***************************************************************************)
uAuth == Url("http:", <<"u">>, hA, Undefined, "/")

UrlsCache == {uA, uAPath, uAuth, uB}

InitCache == InitWith({noEnv}, {Undefined})

NextCache ==
    \/ ResolveProxy(UrlsCache, MaxCacheCalls, MaxInflight)
    \/ ResolverFulfilled({sProxyAB, Undefined}, {0}, {FALSE})
    \/ ResolverRejected
    \/ ConfigurationChanged({Undefined, cfgHttp})

SpecCache == InitCache /\ [][NextCache]_vars

(***************************************************************************)
(* SpecRace: overlapping lookups.  Two origins, any number of lookups in   *)
(* flight, which settle in any order with one of two specs or none.        *)
(***************************************************************************)
InitRace == InitWith({noEnv}, {Undefined})

NextRace ==
    \/ ResolveProxy({uA, uB}, MaxRaceCalls, MaxRaceCalls)
    \/ ResolverFulfilled({sProxyAB, sDIRECT, Undefined}, {0}, {FALSE})
    \/ ResolverRejected

SpecRace == InitRace /\ [][NextRace]_vars

(***************************************************************************)
(* SpecPatch: the patched get/request entry points of the five module      *)
(* variants, called with every combination of the options they read, while *)
(* the host changes http.proxySupport.                                     *)
(***************************************************************************)
Variants == {"off", "on", "override", "onRequest", "default"}
\* values of http.proxySupport: unset, the three modes and one that is none of them
Modes == {"", "off", "on", "override", "fallback"}
\* values of the per-call fields: absent or a mode
FieldModes == {"", "off", "on", "override"}
SocketPaths == {"", "/tmp/sock"}
Agents == {"none", "Agent", "ProxyAgent"}

PatchedCall(variants, supports, systems, socketPaths, agents) ==
    \E variant \in variants, support \in supports, system \in systems,
       socketPath \in socketPaths, agent \in agents :
        patched(variant, Options(support, system, socketPath, agent))

ProxySupportChanged(modes) == \E value \in modes : OnDidChangeProxySupport(value)

InitPatch == InitSupport({noEnv}, {Undefined}, {"", "on"})

NextPatch ==
    \/ PatchedCall(Variants, FieldModes, {"", "on", "override"}, SocketPaths, Agents)
    \/ ProxySupportChanged(Modes)

SpecPatch == InitPatch /\ [][NextPatch]_vars

(***************************************************************************)
(* SpecThrows: every path of the chain, with callbacks that may raise in   *)
(* the success branch of a lookup, and the flush timer.                    *)
(***************************************************************************)
InitThrows == InitWith(EnvsPrec, {Undefined, cfgHttp})

NextThrows ==
    \/ ResolveProxy({uLocalhost, uXFoo, uA}, MaxThrowCalls, MaxThrowCalls)
    \/ ResolverFulfilled({sProxyAB, Undefined}, {0}, BOOLEAN)
    \/ ResolverRejected
    \/ TimerFires
    \/ ConfigurationChanged({Undefined, cfgHttp})

SpecThrows == InitThrows /\ [][NextThrows]_vars

(***************************************************************************)
(* SpecConfig: configuration changes.  The settings proxy is set and       *)
(* cleared and NO_PROXY is assigned in the process environment, between    *)
(* calls for an origin the no-proxy list names and for one it does not.    *)
(***************************************************************************)
EnvsConfig == {noEnv, Env(Undefined, Undefined, npList)}

EnvironmentChanged(envs) == \E value \in envs : OnEnvironmentAssigned(value)

InitConfig == InitWith(EnvsConfig, {Undefined})

NextConfig ==
    \/ ResolveProxy({uA, uXFoo}, MaxConfigCalls, MaxInflight)
    \/ ResolverFulfilled({sProxyAB}, {0}, {FALSE})
    \/ ConfigurationChanged({Undefined, cfgHttp})
    \/ EnvironmentChanged(EnvsConfig)

SpecConfig == InitConfig /\ [][NextConfig]_vars

(***************************************************************************)
(* Steps, told apart by what they change.                                  *)
(***************************************************************************)
\* a resolveProxy call
IsCall == ncalls' = ncalls + 1
\* logEvent ran
IsFlush == timers' < timers
\* an external lookup was rejected
IsReject == pending' # pending /\ out'.op = "rejected"
\* the seven path counters, summed
PathTotal(e) ==
    e.localhostCount + e.envNoProxyCount + e.settingsCount + e.envCount + e.cacheCount
        + e.count + e.errorCount
ZeroCounters == counters = <<0, 0, 0, 0, 0, 0, 0, 0>>
\* the resolveProxy call that armed the pending timer
ArmedBy == timeout[2]
\* the step gave an event to the telemetry sink
Publishes == out' # out /\ out'.events # <<>>

\* an external lookup was fulfilled
IsFulfil == pending' # pending /\ out'.op = "fulfilled"
\* the step neither read nor changed the cache nor went to the external resolver
NoCacheNoLookup ==
    /\ out'.gets = 0
    /\ out'.ext = 0
    /\ UNCHANGED cacheVars
    /\ pending' = pending
    /\ hooked' = hooked
\* the four hostnames of the claim
LoopbackLiterals == {sLocalhost, sLoopback4, sLoopback6, sLoopback46}
\* the no-proxy predicate holds of the request
NoProxyMatched(url) == envNoProxyApply(envNoProxy, url.hostname, effectivePort(url))

(***************************************************************************)
(* C1: a resolveProxy call for localhost, 127.0.0.1, ::1 or                *)
(* ::ffff:127.0.0.1 calls back with DIRECT before it returns, whatever the *)
(* cache, the settings proxy, the environment proxy and the no-proxy       *)
(* predicate are; it does not call the external resolver and neither reads *)
(* nor changes a cache generation.                                         *)
(***************************************************************************)
C1_LoopbackDirect ==
    [][(IsCall /\ out'.url.hostname \in LoopbackLiterals) =>
          /\ out'.cbs = <<sDIRECT>>
          /\ NoCacheNoLookup]_vars

\* the IPv4-mapped literal was answered while the cache held an entry and a settings
\* proxy was set
C1_Witness ==
    /\ out.op = "resolveProxy"
    /\ out.url = uLoopback46
    /\ out.cbs = <<sDIRECT>>
    /\ MapSize(cache) = 1
    /\ Truthy(settingsProxy)
    /\ localhostCount = 1

(***************************************************************************)
(* C2: for a hostname that is no loopback literal and that the no-proxy    *)
(* predicate does not match, a set settings proxy is returned whatever the *)
(* environment proxy and the cache hold; else a set environment proxy is   *)
(* returned whatever the cache holds; the cache is consulted and the       *)
(* external resolver called only when both are unset.                      *)
(***************************************************************************)
C2_Precedence ==
    [][(IsCall /\ out'.url.hostname \notin LoopbackLiterals /\ ~NoProxyMatched(out'.url)) =>
          /\ Truthy(settingsProxy) =>
                 (out'.cbs = <<settingsProxy>> /\ NoCacheNoLookup)
          /\ (~Truthy(settingsProxy) /\ Truthy(envProxy)) =>
                 (out'.cbs = <<envProxy>> /\ NoCacheNoLookup)
          /\ (out'.gets > 0 \/ out'.ext > 0) =>
                 (~Truthy(settingsProxy) /\ ~Truthy(envProxy))
          /\ (~Truthy(settingsProxy) /\ ~Truthy(envProxy)) => out'.gets = 1]_vars

\* the settings proxy was returned for an origin whose spec the cache holds
C2_Witness ==
    /\ out.op = "resolveProxy"
    /\ out.url = uA
    /\ Truthy(settingsProxy)
    /\ out.cbs = <<settingsProxy>>
    /\ Truthy(MapGet(cache, getCacheKey(uA)))
    /\ settingsCount = 1

(***************************************************************************)
(* C3: the predicate noProxyFromEnv builds from a comma-separated list is  *)
(* true of (hostname, port) exactly when some entry with a non-empty name  *)
(* has a leading-dot suffix that "." + lowercased hostname ends with and   *)
(* has no port or the request's port; "*" gives the always-true predicate, *)
(* the empty value the always-false one.  For ".foo.com,bar.com:8080":     *)
(* x.foo.com matches on any port, bar.com on 8080 and not on 80,           *)
(* foo.com.evil.com does not.                                              *)
(***************************************************************************)
\* the value of the variable, as the environment gives it
NoProxyRaw == IF Truthy(env.no_proxy) THEN env.no_proxy ELSE env.NO_PROXY
NoProxyText == ToLowerCase(Trim(IF Truthy(NoProxyRaw) THEN NoProxyRaw ELSE <<>>))

\* the entries of the list: the text between two commas (or an end), trimmed
ListEntries(text) ==
    {Trim(SubSeq(text, i, j)) : <<i, j>> \in
        {ij \in (1..Len(text) + 1) \X (0..Len(text)) :
            /\ ij[1] <= ij[2] + 1
            /\ ij[1] = 1 \/ text[ij[1] - 1] = ","
            /\ ij[2] = Len(text) \/ text[ij[2] + 1] = ","
            /\ \A m \in ij[1]..ij[2] : text[m] # ","}}

\* the positions of the colons of an entry
Colons(e) == {m \in 1..Len(e) : e[m] = ":"}
Least(S) == CHOOSE m \in S : \A n \in S : m <= n
\* the name: the text before the first colon
EntryName(e) == IF Colons(e) = {} THEN e ELSE SubSeq(e, 1, Least(Colons(e)) - 1)
\* the port: the text between the first colon and the second (or the end); <<>> if none
EntryPort(e) ==
    IF Colons(e) = {} THEN <<>>
    ELSE LET c1   == Least(Colons(e))
             rest == Colons(e) \ {c1}
         IN  SubSeq(e, c1 + 1, IF rest = {} THEN Len(e) ELSE Least(rest) - 1)
\* the name with a leading dot
DotName(e) == IF EntryName(e)[1] = "." THEN EntryName(e) ELSE <<".">> \o EntryName(e)
\* t ends with suffix
HasSuffix(t, suffix) ==
    /\ Len(suffix) <= Len(t)
    /\ \A m \in 1..Len(suffix) : suffix[m] = t[Len(t) - Len(suffix) + m]

EntryMatches(e, hostname, port) ==
    /\ EntryName(e) # <<>>
    /\ HasSuffix(<<".">> \o ToLowerCase(hostname), DotName(e))
    /\ EntryPort(e) = <<>> \/ EntryPort(e) = port

ListMatches(hostname, port) ==
    \/ NoProxyText = <<"*">>
    \/ \E e \in ListEntries(NoProxyText) : EntryMatches(e, hostname, port)

C3_NoProxyMatch ==
    /\ \A url \in UrlsNoProxy :
          NoProxyMatched(url) <=> ListMatches(url.hostname, effectivePort(url))
    /\ out.op = "resolveProxy" =>
          /\ (out.cbs = <<sDIRECT>>) <=> ListMatches(out.url.hostname, effectivePort(out.url))
          /\ (out.gets = 0 /\ out.ext = 0) <=>
                 ListMatches(out.url.hostname, effectivePort(out.url))
    /\ NoProxyRaw \in {npStar, npStarSp} => \A url \in UrlsNoProxy : NoProxyMatched(url)
    /\ ~Truthy(NoProxyRaw) => \A url \in UrlsNoProxy : ~NoProxyMatched(url)
    /\ NoProxyRaw = npList =>
          /\ envNoProxyApply(envNoProxy, hXFoo, sPort443)
          /\ envNoProxyApply(envNoProxy, hXFoo, sPort80)
          /\ envNoProxyApply(envNoProxy, hBar, sPort8080)
          /\ ~envNoProxyApply(envNoProxy, hBar, sPort80)
          /\ ~envNoProxyApply(envNoProxy, hFooEvil, sPort443)
          /\ ~envNoProxyApply(envNoProxy, hFooEvil, sPort80)

\* under ".foo.com,bar.com:8080", bar.com:8080 was answered DIRECT after bar.com on
\* port 80 had gone to the external resolver
C3_Witness ==
    /\ NoProxyRaw = npList
    /\ out.op = "resolveProxy"
    /\ out.url = uBar8080
    /\ out.cbs = <<sDIRECT>>
    /\ envNoProxyCount = 1
    /\ \E p \in pending : p.url = uBar

(***************************************************************************)
(* C4 (as stated): with no settings proxy, no environment proxy and no     *)
(* no-proxy match, a call for a URL of the origin (scheme, host, port) of  *)
(* the call whose lookup was fulfilled last calls back synchronously with  *)
(* the spec that lookup gave and does not call the external resolver.      *)
(***************************************************************************)
Unconfigured(url) ==
    /\ ~Truthy(settingsProxy)
    /\ ~Truthy(envProxy)
    /\ url.hostname \notin LoopbackLiterals
    /\ ~NoProxyMatched(url)

SameOrigin(u, v) ==
    /\ u.protocol = v.protocol
    /\ u.hostname = v.hostname
    /\ u.port = v.port

KeyOf(url) ==
    [protocol |-> url.protocol, auth |-> url.auth, hostname |-> url.hostname,
     port |-> url.port]

\* the spec a lookup of key k finds: the current generation's if non-empty, else the
\* previous generation's
Held(k) == IF Truthy(MapGet(cache, k)) THEN cache[k] ELSE MapGet(oldCache, k)
\* the same, after the step
HeldNext(k) == IF Truthy(MapGet(cache', k)) THEN cache'[k] ELSE MapGet(oldCache', k)

C5_Original ==
    [][(/\ IsCall
        /\ Unconfigured(out'.url)
        /\ KeyOf(out'.url) \in DOMAIN oldCache
        /\ KeyOf(out'.url) \notin DOMAIN cache) =>
          /\ out'.cbs = <<oldCache[KeyOf(out'.url)]>>
          /\ MapGet(cache', KeyOf(out'.url)) = oldCache[KeyOf(out'.url)]]_vars

(***************************************************************************)
(* C5 (amended): after a rollover, every entry of the previous generation  *)
(* that holds a non-empty spec is still returned by a cache lookup, which  *)
(* removes it from the previous generation and inserts it into the current *)
(* one; that insertion may itself fill the current generation and roll it  *)
(* over, and then the entry is in the new previous generation.  An entry   *)
(* of the previous generation stops being retrievable only when a rollover *)
(* discards that generation in a step that does not look the entry up.     *)
(***************************************************************************)
C5_Promotion ==
    [][/\ (/\ IsCall
           /\ Unconfigured(out'.url)
           /\ Truthy(MapGet(oldCache, KeyOf(out'.url)))
           /\ ~Truthy(MapGet(cache, KeyOf(out'.url)))) =>
              LET k == KeyOf(out'.url)
              IN  /\ out'.cbs = <<oldCache[k]>>
                  /\ out'.ext = 0
                  /\ IF cacheRolls' = cacheRolls
                     THEN /\ MapGet(cache', k) = oldCache[k]
                          /\ oldCache' = MapDelete(oldCache, k)
                          /\ MapSize(cache') < maxCacheEntries
                     ELSE /\ cacheRolls' = cacheRolls + 1
                          /\ cache' = EmptyMap
                          /\ oldCache' = MapSet(cache, k, oldCache[k])
                          /\ MapSize(oldCache') = maxCacheEntries
       /\ \A k \in DOMAIN oldCache :
              Truthy(oldCache[k]) =>
                  \/ Truthy(HeldNext(k))
                  \/ /\ cacheRolls' = cacheRolls + 1
                     /\ ~(IsCall /\ KeyOf(out'.url) = k)]_vars

\* a promotion has filled the current generation and rolled it over a second time,
\* which discarded an entry that had not been looked up
C5_Witness ==
    /\ out.op = "resolveProxy"
    /\ out.cbs = <<sProxyAB>>
    /\ out.ext = 0
    /\ cacheRolls = 2
    /\ cache = EmptyMap
    /\ KeyOf(out.url) \in DOMAIN oldCache
    /\ KeyOf(uB) \notin DOMAIN oldCache
    /\ ncalls = 4

(***************************************************************************)
(* C6: in every reachable state the current generation holds fewer than    *)
(* maxCacheEntries entries and the previous one at most maxCacheEntries,   *)
(* so both hold at most 2 x maxCacheEntries; a rollover happens exactly    *)
(* when an insertion brings the current generation to maxCacheEntries      *)
(* entries; it discards the previous generation, makes the current one     *)
(* (with the inserted entry) the previous one, starts an empty current one *)
(* and adds one to cacheRolls.                                             *)
(***************************************************************************)
\* the step inserts into the current generation: a fulfilled lookup, or a call that
\* promotes
Inserts ==
    \/ IsFulfil
    \/ /\ IsCall
       /\ Unconfigured(out'.url)
       /\ ~Truthy(MapGet(cache, KeyOf(out'.url)))
       /\ Truthy(MapGet(oldCache, KeyOf(out'.url)))

C6_Generations ==
    /\ [](/\ MapSize(cache) < maxCacheEntries
          /\ MapSize(oldCache) <= maxCacheEntries
          /\ MapSize(cache) + MapSize(oldCache) <= 2 * maxCacheEntries)
    /\ [][/\ cacheRolls' \in {cacheRolls, cacheRolls + 1}
          /\ (cacheRolls' = cacheRolls + 1) <=>
                 (Inserts /\ Cardinality(DOMAIN cache \cup {KeyOf(out'.url)}) = maxCacheEntries)
          /\ cacheRolls' = cacheRolls + 1 =>
                 /\ cache' = EmptyMap
                 /\ DOMAIN oldCache' = DOMAIN cache \cup {KeyOf(out'.url)}
                 /\ \A k \in DOMAIN cache \ {KeyOf(out'.url)} : oldCache'[k] = cache[k]
          /\ cacheRolls' = cacheRolls =>
                 /\ DOMAIN cache \subseteq DOMAIN cache'
                 /\ DOMAIN oldCache' \subseteq DOMAIN oldCache]_vars

\* the second rollover has happened: the previous generation is full, the current empty
C6_Witness ==
    /\ cacheRolls = 2
    /\ cache = EmptyMap
    /\ MapSize(oldCache) = maxCacheEntries
    /\ out.op = "fulfilled"

(***************************************************************************)
(* C7 (as stated): two HTTP requests resolved to "PROXY a:b" in one period *)
(* that both ended with HTTP 200 are one bucket {proxy: "a:b", connection: *)
(* "HTTP", code: "HTTP_200", count: 2} of the period's list.               *)
(***************************************************************************)
EndedAs(a, spec, connection, code) ==
    IF <<spec, connection, code>> \in DOMAIN ended[a]
    THEN ended[a][<<spec, connection, code>>] ELSE 0

BucketsOf(a, proxy, connection, code) ==
    {i \in 1..Len(arrays[a]) : /\ arrays[a][i].proxy = proxy
                               /\ arrays[a][i].connection = connection
                               /\ arrays[a][i].code = code}

C7_Original ==
    \A a \in DOMAIN arrays :
        EndedAs(a, sProxyAB, "HTTP", "HTTP_200") = 2 =>
            \E i \in 1..Len(arrays[a]) :
                /\ arrays[a][i] = [proxy |-> <<"a", ":", "b">>, connection |-> "HTTP",
                                   code |-> "HTTP_200", count |-> 2]
                /\ BucketsOf(a, <<"a", ":", "b">>, "HTTP", "HTTP_200") = {i}

(***************************************************************************)
(* C7 (amended): the bucket's proxy is the first token of the spec,        *)
(* "PROXY": every outcome told to the listeners of one list is counted in  *)
(* exactly one bucket of that list, the one of (first token of the spec,   *)
(* connection, code), whose count is the number of such outcomes; for the  *)
(* two requests that is {proxy: "PROXY", "HTTP", "HTTP_200", count: 2}.    *)
(***************************************************************************)
RECURSIVE BagSum(_, _)
BagSum(b, keys) ==
    IF keys = {} THEN 0
    ELSE LET k == CHOOSE j \in keys : TRUE IN b[k] + BagSum(b, keys \ {k})

\* the outcomes told to the listeners of list a that fall into bucket t
ToldOf(a, t) ==
    BagSum(ended[a], {k \in DOMAIN ended[a] :
                         <<resultProxy(k[1]), k[2], k[3]>> = t})

C7_OneBucketPerOutcome ==
    \A a \in DOMAIN arrays :
        /\ \A k \in DOMAIN ended[a] :
              LET t == <<resultProxy(k[1]), k[2], k[3]>>
              IN  /\ Cardinality(BucketsOf(a, t[1], t[2], t[3])) = 1
                  /\ \A i \in BucketsOf(a, t[1], t[2], t[3]) :
                        arrays[a][i].count = ToldOf(a, t)
        /\ \A i \in 1..Len(arrays[a]) :
              ToldOf(a, <<arrays[a][i].proxy, arrays[a][i].connection,
                          arrays[a][i].code>>) > 0
        /\ EndedAs(a, sProxyAB, "HTTP", "HTTP_200") = 2 =>
              \E i \in 1..Len(arrays[a]) :
                  arrays[a][i] = [proxy |-> <<"P", "R", "O", "X", "Y">>,
                                  connection |-> "HTTP", code |-> "HTTP_200",
                                  count |-> 2]

\* two requests resolved to "PROXY a:b" (one freshly, one from the cache) have both
\* ended with HTTP 200 in the current period
C7_Witness ==
    /\ EndedAs(results, sProxyAB, "HTTP", "HTTP_200") = 2
    /\ cacheCount = 1
    /\ count = 1

(***************************************************************************)
(* C8 (as stated): after a flush and until the next resolveProxy call the  *)
(* counters and the bucket list stay as the flush left them and no flush   *)
(* occurs; the flush that the first call after it triggers happens before  *)
(* the call's own counter increment is recorded.                           *)
(***************************************************************************)
C8_Original ==
    [][/\ (timers = 0 /\ results > 1 /\ ~IsCall) =>
              /\ UNCHANGED counters
              /\ arrays'[results'] = arrays[results]
              /\ ~IsFlush
       /\ IsFlush => \E p \in pending : p.n = ArmedBy]_vars

(***************************************************************************)
(* C8 (amended): while no timer is pending, no flush occurs before the     *)
(* next resolveProxy call, and the counters and the bucket list change     *)
(* only when a lookup or a request started earlier completes; the first    *)
(* call after a flush arms the one timer and flushes nothing itself; its   *)
(* own increment is recorded before the flush it arms, which reports it,   *)
(* unless its external lookup is still in flight when the timer fires.     *)
(***************************************************************************)
C8_IdleFlush ==
    [][/\ (timers = 0 /\ ~IsCall) =>
              /\ ~IsFlush
              /\ results' = results
              /\ ~Publishes
              /\ (pending' = pending /\ hooked' = hooked) =>
                     (UNCHANGED counters /\ arrays'[results'] = arrays[results])
       /\ (timers = 0 /\ IsCall) =>
              /\ timers' = 1
              /\ timeout' = Timer(ncalls')
              /\ ~Publishes
              /\ results' = results
              /\ out'.path # "lookup" => PathTotal(
                     [localhostCount |-> localhostCount', envNoProxyCount |-> envNoProxyCount',
                      settingsCount |-> settingsCount', envCount |-> envCount',
                      cacheCount |-> cacheCount', count |-> count',
                      errorCount |-> errorCount']) =
                   1 + PathTotal(
                     [localhostCount |-> localhostCount, envNoProxyCount |-> envNoProxyCount,
                      settingsCount |-> settingsCount, envCount |-> envCount,
                      cacheCount |-> cacheCount, count |-> count,
                      errorCount |-> errorCount])
       /\ IsFlush =>
              /\ Len(out'.events) = 1
              /\ ZeroCounters'
              /\ arrays'[results'] = <<>>
              /\ (\A p \in pending : p.n # ArmedBy) => PathTotal(out'.events[1]) >= 1]_vars

\* a flush has reported the synchronous call that armed its timer after an earlier flush
C8_Witness ==
    /\ out.op = "logEvent"
    /\ results > 2
    /\ out.events[1].localhostCount = 1
    /\ PathTotal(out.events[1]) = 1

(***************************************************************************)
(* C9: a resolveProxy call arms the flush timer only when none is pending, *)
(* so at most one is pending; each pending timer runs logEvent once, which *)
(* leaves no timer pending; only a resolveProxy call arms one, so there is *)
(* a call between any two flushes.                                         *)
(***************************************************************************)
C9_OneFlushTimer ==
    [][/\ timers' \in {0, 1}
       /\ (timeout' # Undefined) <=> (timers' = 1)
       /\ timers' > timers => (IsCall /\ timers = 0 /\ timeout = Undefined)
       /\ (IsCall /\ timers = 1) => UNCHANGED timerVars
       /\ IsFlush => (timers = 1 /\ timers' = 0 /\ Len(out'.events) = 1)
       /\ Publishes => IsFlush]_vars

\* a second timer was armed by a call made after a flush, while calls went on
C9_Witness ==
    /\ results = 2
    /\ timers = 1
    /\ ncalls = 2
    /\ ArmedBy = 2

(***************************************************************************)
(* C10: a rejected external lookup changes neither cache generation, calls *)
(* the callback once with no spec, adds one to errorCount and nothing to   *)
(* count and duration, attaches no listeners, and is not retried.          *)
(***************************************************************************)
C10_RejectedLookup ==
    [][IsReject =>
          /\ UNCHANGED cacheVars
          /\ out'.cbs = <<Undefined>>
          /\ errorCount' = errorCount + 1
          /\ count' = count
          /\ duration' = duration
          /\ hooked' = hooked
          /\ ~out'.hook
          /\ out'.ext = 0
          /\ \E p \in pending : p.n = out'.n /\ pending' = pending \ {p}]_vars

\* a lookup was rejected while the cache held an entry and a success had been counted
C10_Witness ==
    /\ out.op = "rejected"
    /\ count = 1
    /\ duration > 0
    /\ MapSize(cache) = 1
(***************************************************************************)
(* C11 (as stated): a call that misses the cache while lookups for its key *)
(* are in flight issues its own external resolver call; the lookups        *)
(* complete in any order; when the last of them has been fulfilled, a      *)
(* cache lookup for the key returns the value that lookup delivered.       *)
(***************************************************************************)
\* lookups for the key of url are in flight
InFlightFor(url) == {p \in pending : KeyOf(p.url) = KeyOf(url)}
\* the step fulfils the last lookup in flight for its key
IsLastFulfil == IsFulfil /\ \A p \in pending' : KeyOf(p.url) # KeyOf(out'.url)
\* the call issues its own external resolver call
OwnLookup ==
    /\ out'.ext = 1
    /\ out'.cbs = <<>>
    /\ pending' = pending \cup {[n |-> ncalls', url |-> out'.url]}
    /\ Cardinality(pending') = Cardinality(pending) + 1

C11_Original ==
    [][/\ (/\ IsCall
           /\ Unconfigured(out'.url)
           /\ InFlightFor(out'.url) # {}
           /\ ~Truthy(Held(KeyOf(out'.url)))) => OwnLookup
       /\ IsLastFulfil => HeldNext(KeyOf(out'.url)) = out'.cbs[1]]_vars

(***************************************************************************)
(* C11 (amended): a call that misses the cache while lookups for its key   *)
(* are in flight issues its own external resolver call; the lookups        *)
(* complete in any order and each fulfilment overwrites the key's entry of *)
(* the current generation; when the last of them has been fulfilled with a *)
(* non-empty spec, a cache lookup for the key returns that spec; when it   *)
(* has been fulfilled with no spec, a cache lookup returns the spec the    *)
(* previous generation still holds for the key from an earlier fulfilment, *)
(* and nothing if it holds none.                                           *)
(***************************************************************************)
C11_LastWriter ==
    [][/\ (/\ IsCall
           /\ Unconfigured(out'.url)
           /\ InFlightFor(out'.url) # {}
           /\ ~Truthy(Held(KeyOf(out'.url)))) => OwnLookup
       /\ IsFulfil =>
              MapGet(IF cacheRolls' = cacheRolls THEN cache' ELSE oldCache',
                     KeyOf(out'.url)) = out'.cbs[1]
       /\ (IsLastFulfil /\ Truthy(out'.cbs[1])) =>
              HeldNext(KeyOf(out'.url)) = out'.cbs[1]
       /\ (IsLastFulfil /\ ~Truthy(out'.cbs[1])) =>
              IF cacheRolls' = cacheRolls
              THEN HeldNext(KeyOf(out'.url)) = MapGet(oldCache, KeyOf(out'.url))
              ELSE ~Truthy(HeldNext(KeyOf(out'.url)))]_vars

\* two lookups for one key were in flight together; the one issued second was fulfilled
\* first with "PROXY a:b", the one issued first was fulfilled last with "DIRECT", which
\* the cache now returns
C11_Witness ==
    /\ out.op = "fulfilled"
    /\ out.n = 1
    /\ out.cbs = <<sDIRECT>>
    /\ pending = {}
    /\ count = 2
    /\ cacheRolls = 0
    /\ MapSize(cache) = 1
    /\ \E h \in hooked : h.n = 2 /\ h.spec = sProxyAB
    /\ Held(KeyOf(out.url)) = sDIRECT
(***************************************************************************)
(* C12 (as stated): for every call to a patched entry point with effective *)
(* mode m: off never substitutes; on substitutes exactly when the caller   *)
(* supplied no agent; override substitutes in every case except when the   *)
(* socket path is set.                                                     *)
(***************************************************************************)
\* a patched entry point has been called
Called == dispatched.variant # ""

C12_Original ==
    Called =>
        /\ dispatched.config = "off" => ~dispatched.substituted
        /\ dispatched.config = "on" =>
               (dispatched.substituted <=> dispatched.options.agent = "none")
        /\ dispatched.config = "override" =>
               (dispatched.substituted <=> dispatched.options.socketPath = "")

(***************************************************************************)
(* C12 (amended): for every call to a patched entry point with effective   *)
(* mode m: off never substitutes; on substitutes exactly when the caller   *)
(* supplied no agent and no socket path; override substitutes exactly when *)
(* the socket path is not set and the caller's agent is not already a      *)
(* proxy agent.  A substituted call gets a proxy agent that keeps the      *)
(* caller's agent as its original agent; any other call is passed on with  *)
(* the caller's agent.                                                     *)
(***************************************************************************)
\* the decision of mode m for options o
Decision(m, o) ==
    \/ m = "on" /\ o.agent = "none" /\ o.socketPath = ""
    \/ m = "override" /\ o.socketPath = "" /\ o.agent # "ProxyAgent"

C12_ModeDecision ==
    Called =>
        /\ dispatched.substituted <=> Decision(dispatched.config, dispatched.options)
        /\ dispatched.substituted =>
               /\ dispatched.agent = "ProxyAgent"
               /\ dispatched.originalAgent = dispatched.options.agent
        /\ ~dispatched.substituted => dispatched.agent = dispatched.options.agent

\* a call in mode on with a socket path and no agent was passed on without a substitute
C12_Witness ==
    /\ Called
    /\ dispatched.config = "on"
    /\ dispatched.options.agent = "none"
    /\ dispatched.options.socketPath # ""
    /\ ~dispatched.substituted
    /\ dispatched.agent = "none"

(***************************************************************************)
(* C13 (as stated): for every variant and every call whose options carry a *)
(* per-call override field, the decision is the one of the field's mode    *)
(* and not of the variant's global mode; when the field is absent the      *)
(* global mode decides, and for the live-setting variants that mode is the *)
(* value of the host setting at the time of the call.                      *)
(***************************************************************************)
\* the step is a call to a patched entry point
IsPatchedCall == dispatched' # dispatched
\* the per-call override field of options o: _vscodeProxySupport, else _vscodeSystemProxy
FieldOf(o) == IF o._vscodeProxySupport # "" THEN o._vscodeProxySupport ELSE o._vscodeSystemProxy
\* the global mode of a variant: its fixed mode, or the host setting (off when unset)
GlobalOf(variant) ==
    IF variant \in {"off", "on", "override"} THEN variant
    ELSE IF proxySupport = "" THEN "off" ELSE proxySupport

C13_Original ==
    [][IsPatchedCall =>
        LET d == dispatched'
            m == IF FieldOf(d.options) # "" THEN FieldOf(d.options) ELSE GlobalOf(d.variant)
        IN  d.substituted <=> Decision(m, d.options)]_vars

(***************************************************************************)
(* C13 (amended): for the variants off, on, override and onRequest and     *)
(* every call whose options carry a per-call override field                *)
(* (_vscodeProxySupport, else _vscodeSystemProxy), the decision is the one *)
(* of the field's mode and not of the variant's global mode; when the      *)
(* field is absent, and for the default variant whether or not a field is  *)
(* present, the global mode decides, and for the live-setting variants     *)
(* that mode is the value of the host setting at the time of the call      *)
(* (off when the setting is unset).                                        *)
(***************************************************************************)
C13_OverrideField ==
    [][IsPatchedCall =>
        LET d == dispatched'
            m == IF d.variant # "default" /\ FieldOf(d.options) # ""
                 THEN FieldOf(d.options) ELSE GlobalOf(d.variant)
        IN  /\ d.config = m
            /\ d.substituted <=> Decision(m, d.options)]_vars

\* the default variant was called with the field override while the host setting was
\* off, and the call was passed on without a substitute; and the variant off was
\* called with the field override and got a substitute
C13_Witness ==
    /\ Called
    /\ dispatched.variant \in {"default", "off"}
    /\ dispatched.options._vscodeProxySupport = "override"
    /\ dispatched.options.socketPath = ""
    /\ dispatched.options.agent = "Agent"
    /\ setting = "off"
    /\ dispatched.substituted <=> dispatched.variant = "off"
(***************************************************************************)
(* C14: a flush (logEvent) sends to the telemetry sink exactly the counter *)
(* values and the ordered bucket list accumulated since the previous       *)
(* flush, then sets every per-period counter to 0 and the bucket list to   *)
(* empty; it leaves both cache generations, cacheRolls, the settings proxy *)
(* and the environment proxy unchanged, and cacheRolls never decreases.    *)
(***************************************************************************)
C14_FlushFrame ==
    [][/\ IsFlush =>
              /\ Len(out'.events) = 1
              /\ out'.events[1].count = count
              /\ out'.events[1].duration = duration
              /\ out'.events[1].errorCount = errorCount
              /\ out'.events[1].cacheCount = cacheCount
              /\ out'.events[1].envCount = envCount
              /\ out'.events[1].settingsCount = settingsCount
              /\ out'.events[1].localhostCount = localhostCount
              /\ out'.events[1].envNoProxyCount = envNoProxyCount
              /\ out'.events[1].cacheSize = MapSize(cache)
              /\ out'.events[1].cacheRolls = cacheRolls
              /\ out'.events[1].results = arrays[results]
              /\ ZeroCounters'
              /\ arrays'[results'] = <<>>
              /\ UNCHANGED <<cacheRolls, oldCache, cache, settingsProxy, envProxy>>
       /\ Publishes => IsFlush
       /\ cacheRolls' >= cacheRolls]_vars

\* a flush has just reported one asynchronous success, one settings hit and a bucket
\* with a counted response, and left the cached entry in place
C14_Witness ==
    /\ out.op = "logEvent"
    /\ out.events[1].count = 1
    /\ out.events[1].settingsCount = 1
    /\ Len(out.events[1].results) = 1
    /\ out.events[1].results[1].count = 1
    /\ ZeroCounters
    /\ arrays[results] = <<>>
    /\ MapSize(cache) = 1
(***************************************************************************)
(* C18: every terminal event (response or error) of a request for which    *)
(* outcome collection was started is counted in the bucket list of exactly *)
(* one emitted telemetry event, namely the first flush that follows the    *)
(* terminal event, also when a flush occurs between the request's          *)
(* resolution and its terminal event.  The first flush that follows sends  *)
(* the list `results` holds (C14), so the terminal event has to add one to *)
(* the counts of that list.                                                *)
(***************************************************************************)
\* the step is the terminal event of a request whose outcome is collected
IsEnd == hooked' # hooked /\ hooked' \subseteq hooked
\* the number of outcomes counted in a bucket list
RECURSIVE Counted(_)
Counted(list) == IF list = <<>> THEN 0 ELSE Head(list).count + Counted(Tail(list))

C18_CountedInNextFlush ==
    [][IsEnd => Counted(arrays'[results']) = Counted(arrays[results]) + 1]_vars

\* the only flush so far sent an empty bucket list, and the response of a request
\* resolved before that flush was counted afterwards in the list the flush had sent,
\* which no later flush sends
C18_Witness ==
    /\ out.op = "logEvent"
    /\ out.events[1].results = <<>>
    /\ results = 2
    /\ arrays[results] = <<>>
    /\ 1 \in DOMAIN arrays
    /\ Counted(arrays[1]) = 1
(***************************************************************************)
(* C19 (as stated): in every reachable state in which some per-period      *)
(* counter is non-zero or the bucket list is non-empty, a flush timer is   *)
(* pending (hence every counted resolution is reported by a flush without  *)
(* any further resolveProxy call, also a lookup that completes after the   *)
(* flush that followed its start).                                         *)
(***************************************************************************)
TimerPending == timers > 0

C19_Original == (~ZeroCounters \/ arrays[results] # <<>>) => TimerPending

(***************************************************************************)
(* C19 (amended): in every reachable state in which a counter of a         *)
(* synchronous path (localhostCount, envNoProxyCount, settingsCount,       *)
(* envCount, cacheCount) is non-zero, a flush timer is pending.  With no   *)
(* timer pending, count, duration, errorCount and the bucket list change   *)
(* only by a lookup that settles, or a collected request that ends, after  *)
(* the flush that followed the lookup's start; what they then hold is      *)
(* reported by the flush whose timer the next resolveProxy call arms, and  *)
(* every resolveProxy call leaves a timer pending.                         *)
(***************************************************************************)
SyncCounters == <<localhostCount, envNoProxyCount, settingsCount, envCount, cacheCount>>

C19_TimerPending ==
    /\ [](TimerPending <=> timeout # Undefined)
    /\ [](~TimerPending => SyncCounters = <<0, 0, 0, 0, 0>>)
    /\ []((~TimerPending /\ results = 1) => (ZeroCounters /\ arrays[results] = <<>>))
    /\ [][/\ IsCall => TimerPending'
          /\ (~TimerPending /\ ~IsCall /\ counters' # counters) =>
                 /\ IsFulfil \/ IsReject
                 /\ SyncCounters' = SyncCounters
                 /\ results > 1
                 /\ ~TimerPending'
          /\ (~TimerPending /\ ~IsCall /\ arrays'[results'] # arrays[results]) =>
                 /\ IsEnd
                 /\ results > 1
                 /\ ~TimerPending'
          /\ (IsFlush /\ results' = results + 1) =>
                 /\ out'.events[1].count = count
                 /\ out'.events[1].errorCount = errorCount
                 /\ out'.events[1].results = arrays[results]]_vars

\* no timer is pending, and the period holds a lookup that was fulfilled after the
\* flush that followed its start, and the counted outcome of its request
C19_Witness ==
    /\ ~TimerPending
    /\ count = 1
    /\ SyncCounters = <<0, 0, 0, 0, 0>>
    /\ results = 2
    /\ Counted(arrays[results]) = 1
    /\ pending = {}
(***************************************************************************)
(* C15: every resolveProxy call increments exactly one of the seven path   *)
(* counters, by exactly one: the counter of its path at once on a          *)
(* synchronous path, and count or errorCount when its lookup settles.  So  *)
(* the number of calls made equals the sum of the counters over all        *)
(* flushed periods and the current period plus the number of lookups in    *)
(* flight: a call adds one to the lookups in flight or to one counter, a   *)
(* settlement moves one from the lookups in flight to one counter, a flush *)
(* reports the counters it zeroes, and no other step changes either.       *)
(***************************************************************************)
\* the seven path counters of the current period
Paths == <<localhostCount, envNoProxyCount, settingsCount, envCount, cacheCount, count,
           errorCount>>
PathSum == localhostCount + envNoProxyCount + settingsCount + envCount + cacheCount
               + count + errorCount
\* the tuple t with one added at position i
Bumped(t, i) == [t EXCEPT ![i] = @ + 1]
\* the position in Paths of the counter of a path
PathIndex(path) ==
    CASE path = "localhost" -> 1
      [] path = "envNoProxy" -> 2
      [] path = "settings" -> 3
      [] path = "env" -> 4
      [] path = "cached" -> 5

C15_OneCounterPerCall ==
    [][/\ (IsCall /\ out'.path # "lookup") =>
              /\ Paths' = Bumped(Paths, PathIndex(out'.path))
              /\ pending' = pending
       /\ (IsCall /\ out'.path = "lookup") =>
              /\ Paths' = Paths
              /\ Cardinality(pending') = Cardinality(pending) + 1
       /\ IsFulfil =>
              /\ Cardinality(pending') = Cardinality(pending) - 1
              /\ Paths' = Bumped(Paths, IF Len(out'.cbs) = 1 THEN 6 ELSE 7)
       /\ IsReject =>
              /\ Cardinality(pending') = Cardinality(pending) - 1
              /\ Paths' = Bumped(Paths, 7)
       /\ IsFlush =>
              /\ PathTotal(out'.events[1]) = PathSum
              /\ PathSum' = 0
              /\ pending' = pending
       /\ (~IsCall /\ ~IsFulfil /\ ~IsReject /\ ~IsFlush) =>
              /\ Paths' = Paths
              /\ pending' = pending]_vars

\* two calls were made: one lookup whose success branch raised, counted in errorCount,
\* and one cache hit for the spec it had stored
C15_Witness ==
    /\ ncalls = 2
    /\ out.op = "resolveProxy"
    /\ out.path = "cached"
    /\ Paths = <<0, 0, 0, 0, 1, 0, 1>>
    /\ pending = {}

(***************************************************************************)
(* C20: every resolveProxy call invokes its callback at most once, and     *)
(* exactly once as soon as the call is on a synchronous path or its        *)
(* external resolver call has settled, for every outcome of the resolver   *)
(* and also when the callback raises an error in the success branch.       *)
(***************************************************************************)
C20_CallbackOnce ==
    /\ Len(out.cbs) <= 1
    /\ (out.op = "resolveProxy" /\ out.path # "lookup") => Len(out.cbs) = 1
    /\ out.op \in {"fulfilled", "rejected"} => Len(out.cbs) = 1

\* a lookup was fulfilled with "PROXY a:b", the callback raised, and the callback was
\* invoked a second time, with no spec
C20_Witness ==
    /\ out.op = "fulfilled"
    /\ out.cbs = <<sProxyAB, Undefined>>
    /\ errorCount = 1
    /\ count = 0
(***************************************************************************)
(* C16 (as stated): when the host signals a configuration change, the      *)
(* settings proxy and the environment no-proxy predicate are both rebuilt  *)
(* from their current sources; the notification leaves both cache          *)
(* generations, cacheRolls, the counters and the bucket list unchanged.    *)
(***************************************************************************)
\* the step is a configuration change notification
IsConfigChange == config' # config
\* what the no-proxy predicate is when built from environment e
NoProxyOf(e) == noProxyFromEnv(FirstTruthy(<<e.no_proxy, e.NO_PROXY>>))
\* the notification's frame
ConfigFrame == UNCHANGED <<cacheRolls, oldCache, cache, counters, results, arrays>>

C16_Original ==
    [][IsConfigChange =>
           /\ settingsProxy' = proxyFromConfigURL(config')
           /\ envNoProxy' = NoProxyOf(env')
           /\ ConfigFrame]_vars

(***************************************************************************)
(* C16 (amended): when the host signals a configuration change, the        *)
(* settings proxy is rebuilt from its current source, so later             *)
(* resolveProxy calls use the new value; the environment no-proxy          *)
(* predicate and the environment proxy are built once, at construction,    *)
(* and no step rebuilds them, whatever the environment holds later.  The   *)
(* notification leaves both cache generations, cacheRolls, the counters    *)
(* and the bucket list unchanged, so an entry cached before a settings     *)
(* proxy was set is hit again after the settings proxy is cleared.         *)
(***************************************************************************)
C16_ConfigChange ==
    /\ [](settingsProxy = proxyFromConfigURL(config))
    /\ [][/\ IsConfigChange =>
                 /\ settingsProxy' = proxyFromConfigURL(config')
                 /\ ConfigFrame
          /\ UNCHANGED <<envProxy, envNoProxy>>
          /\ (IsCall /\ out'.path = "settings") =>
                 out'.cbs = <<proxyFromConfigURL(config)>>
          /\ (IsCall /\ out'.path = "envNoProxy") =>
                 envNoProxyApply(envNoProxy, out'.url.hostname, effectivePort(out'.url))
          /\ (IsCall /\ Unconfigured(out'.url) /\ Truthy(Held(KeyOf(out'.url)))) =>
                 /\ out'.path = "cached"
                 /\ out'.cbs = <<Held(KeyOf(out'.url))>>]_vars

\* call 1 was a lookup, fulfilled with "PROXY a:b"; call 2 was answered by a settings
\* proxy set after call 1; the settings proxy was cleared and call 3 hit the entry of
\* call 1; NO_PROXY was assigned meanwhile and the predicate is still the one built at
\* construction
C16_Witness ==
    /\ out.op = "resolveProxy"
    /\ out.n = 3
    /\ out.path = "cached"
    /\ out.cbs = <<sProxyAB>>
    /\ \E h \in hooked : h.n = 1
    /\ settingsCount = 1
    /\ config = Undefined
    /\ envNoProxy # NoProxyOf(env)
(***************************************************************************)
(* C17 (as stated): in every reachable state, also after overlapping       *)
(* lookups for one key that complete on opposite sides of a rollover, no   *)
(* cache key is present in both generations at once.                       *)
(***************************************************************************)
\* the keys present in both generations
InBoth == DOMAIN cache \cap DOMAIN oldCache
InBothNext == DOMAIN cache' \cap DOMAIN oldCache'

C17_Original == InBoth = {}

(***************************************************************************)
(* C17 (amended): a cache key can be present in both generations at once,  *)
(* with two different specs.  A key comes to be in both only when a lookup *)
(* for it is fulfilled, without a rollover, while the previous generation  *)
(* has the key: after overlapping lookups that complete on opposite sides  *)
(* of a rollover, or when the previous generation has the key with no      *)
(* spec.  A cache lookup returns the current generation's spec if that is  *)
(* non-empty and else the previous generation's, and a lookup that finds   *)
(* the spec in the previous generation leaves the key in one generation    *)
(* only.                                                                   *)
(***************************************************************************)
C17_TwoGenerations ==
    [][/\ \A k \in InBothNext \ InBoth :
              /\ IsFulfil
              /\ k = KeyOf(out'.url)
              /\ cacheRolls' = cacheRolls
              /\ k \in DOMAIN oldCache
       /\ (IsCall /\ out'.gets = 1) =>
              LET k == KeyOf(out'.url)
              IN  IF Truthy(MapGet(cache, k))
                  THEN /\ out'.cbs = <<cache[k]>>
                       /\ UNCHANGED cacheVars
                  ELSE IF Truthy(MapGet(oldCache, k))
                  THEN /\ out'.cbs = <<oldCache[k]>>
                       /\ k \notin InBothNext
                       /\ HeldNext(k) = oldCache[k]
                  ELSE /\ out'.cbs = <<>>
                       /\ UNCHANGED cacheVars]_vars

\* a key is in both generations with two different non-empty specs
C17_Witness ==
    \E k \in InBoth :
        /\ Truthy(cache[k])
        /\ Truthy(oldCache[k])
        /\ cache[k] # oldCache[k]
        /\ pending = {}
=============================================================================
